---------------------------- MODULE Spec2Model ----------------------------
(***************************************************************************)
(* A model of code.nkcmr.net/simple (src/simple.go).                       *)
(*                                                                         *)
(* FromValue / fromReflectValue is modelled as an explicit call stack      *)
(* machine walking an object graph `nodes`; every call of                  *)
(* fromReflectValue is a frame, every `append(path, ...)` acts on a heap   *)
(* of backing arrays with Go's slice semantics (pointer, len, cap), and    *)
(* the iteration order of reflect's MapRange is a free choice.             *)
(* FromJSON / json.Marshal are modelled on JSON text as a sequence of      *)
(* characters.                                                             *)
(***************************************************************************)
EXTENDS Integers, Sequences, FiniteSets, TLC

VARIABLES
    nodes,    \* the host values reachable from the input: nodes[i], i >= 1
    root,     \* the reflect.Value FromValue starts from (0: reflect.ValueOf(nil))
    growth,   \* the capacity policy of the build's append
    stack,    \* the calls of fromReflectValue in progress, innermost last
    arrays,   \* the backing arrays of the path slices
    ret,      \* what the call that ended last returned: [val, err], or None
    status,   \* "running", "returned" or "panic"
    fault,    \* the panic raised, "" while there is none
    segs,     \* history: the access segments from the root to the innermost call
    raised,   \* history: the first error value built, with where it was built
    calls,    \* history: the number of calls of fromReflectValue so far
    hooks,    \* history: the number of SimpleValue() invocations so far
    visited,  \* history: the nodes some call was made on
    ended,    \* history: the node and the segments of the call that ended last
    first,    \* the outcome of an earlier FromValue on the same input, or None
    jsonv,    \* the Value handed to the JSON bridge
    jsont,    \* the JSON text produced for it, once rendered
    jsonr     \* the outcome of FromJSON on that text, once decoded

vars == <<nodes, root, growth, stack, arrays, ret, status, fault, segs,
          raised, calls, hooks, visited, ended, first, jsonv, jsont, jsonr>>

convVars == <<nodes, root, growth, stack, arrays, ret, status, fault, segs,
              raised, calls, hooks, visited, ended, first>>

None == [none |-> TRUE]

-----------------------------------------------------------------------------
(* The Value model: Struct, Array, Number, String, Bool and Go's nil.      *)
(* A float64 is modelled in tenths: the integer 25 stands for 2.5.         *)

NilValue == [t |-> "nil"]
StructOf(m) == [t |-> "Struct", m |-> m]
ArrayOf(a) == [t |-> "Array", a |-> a]
NumberOf(f) == [t |-> "Number", f |-> f]
StringOf(s) == [t |-> "String", s |-> s]
BoolOf(b) == [t |-> "Bool", b |-> b]

\* make(Struct, n): an empty, non-nil map.
EmptyStruct == StructOf(<<>>)

\* outstruct[key] = value
StructPut(v, key, value) ==
    StructOf([k \in (DOMAIN v.m) \cup {key} |-> IF k = key THEN value ELSE v.m[k]])

-----------------------------------------------------------------------------
(* Errors: fromValueError and fromValueWrappedError both hold the path     *)
(* slice and render through strings.Join(path, "").                        *)

NoErr == [nil |-> TRUE]

fromValueError(path, problem) ==
    [path |-> path, problem |-> problem, wrapped |-> FALSE]

fromValueWrappedError(err, path) ==
    [path |-> path, problem |-> err, wrapped |-> TRUE]

\* The elements a slice header sees in its backing array.
SliceElems(heap, sl) ==
    IF sl.len = 0 THEN <<>> ELSE SubSeq(heap[sl.arr], 1, sl.len)

\* strings.Join(elems[lo-1:hi], "")
RECURSIVE JoinRange(_, _, _)
JoinRange(elems, lo, hi) ==
    IF lo > hi THEN ""
    ELSE IF lo = hi THEN elems[lo]
    ELSE LET mid == (lo + hi) \div 2
         IN  JoinRange(elems, lo, mid) \o JoinRange(elems, mid + 1, hi)

Join(elems) == JoinRange(elems, 1, Len(elems))

\* Error(): fmt.Sprintf("cannot convert value at %s: %s", strings.Join(path, ""), problem)
ErrorText(heap, e) ==
    "cannot convert value at " \o Join(SliceElems(heap, e.path)) \o ": " \o e.problem

-----------------------------------------------------------------------------
(* Go slices: append writes in place while the capacity lasts and          *)
(* otherwise copies into a new array.  The capacity of the new array is    *)
(* the build's choice; "runtime" is the gc runtime's growslice for 16-byte *)
(* elements (nextslicecap, then the allocator's size class), "exact"       *)
(* allocates no spare room.                                                *)

SizeClasses ==
    {16, 32, 48, 64, 80, 96, 112, 128, 144, 160, 176, 192, 208, 224, 240,
     256, 288, 320, 352, 384, 416, 448, 480, 512, 576, 640, 704, 768, 896,
     1024, 1152, 1280, 1408, 1536, 1792, 2048, 2304, 2688, 3072, 3200, 3456,
     4096, 4864, 5120, 5376, 6144, 6528, 6784, 6912, 8192, 9472, 9728,
     10240, 10880, 12288, 13568, 14336, 16384, 18432, 19072, 20480, 21760,
     24576, 27264, 28672, 32768}

roundupsize(bytes) ==
    IF bytes > 32768 THEN ((bytes + 8191) \div 8192) * 8192
    ELSE CHOOSE c \in SizeClasses :
            c >= bytes /\ \A d \in SizeClasses : d >= bytes => c <= d

RECURSIVE growLarge(_, _)
growLarge(newcap, newLen) ==
    LET n == newcap + ((newcap + 768) \div 4)
    IN  IF n >= newLen THEN n ELSE growLarge(n, newLen)

nextslicecap(newLen, oldCap) ==
    IF newLen > 2 * oldCap THEN newLen
    ELSE IF oldCap < 256 THEN 2 * oldCap
    ELSE growLarge(oldCap, newLen)

GrowCap(policy, oldCap, newLen) ==
    IF policy = "exact" THEN newLen
    ELSE IF policy = "spare" THEN 2 * newLen
    ELSE roundupsize(nextslicecap(newLen, oldCap) * 16) \div 16

EmptyPath == [arr |-> 0, len |-> 0, cap |-> 0]

\* The slice header append(sl, es...) returns.
AppendSlice(heap, policy, sl, es) ==
    LET newLen == sl.len + Len(es)
    IN  IF newLen <= sl.cap
        THEN [arr |-> sl.arr, len |-> newLen, cap |-> sl.cap]
        ELSE [arr |-> Len(heap) + 1, len |-> newLen,
              cap |-> GrowCap(policy, sl.cap, newLen)]

\* The heap after append(sl, es...).
AppendHeap(heap, policy, sl, es) ==
    LET newLen == sl.len + Len(es)
    IN  IF newLen <= sl.cap
        THEN [heap EXCEPT ![sl.arr] =
                [j \in 1..sl.cap |->
                    IF j > sl.len /\ j <= newLen THEN es[j - sl.len] ELSE @[j]]]
        ELSE Append(heap,
                [j \in 1..GrowCap(policy, sl.cap, newLen) |->
                    IF j <= sl.len THEN heap[sl.arr][j]
                    ELSE IF j <= newLen THEN es[j - sl.len]
                    ELSE ""])

-----------------------------------------------------------------------------
(* Host values.  nodes[i] is one reflect.Value the walk can reach:          *)
(*   kind, type   reflect's Kind and the type's name                        *)
(*   hook         which SimpleValue method the value's method set has       *)
(*   hookVal, hookErr   what that method returns (hookErr "" is a nil error)*)
(*   slots        the members: struct fields (name, exported), map entries  *)
(*                (key), elements, or the one referent of a pointer or an   *)
(*                interface; ref 0 is a nil pointer or a nil interface      *)
(*   keyKind, keyType   a map's key type                                    *)
(*   val          a scalar's payload                                        *)

IntKinds == {"int", "int8", "int16", "int32", "int64"}
UintKinds == {"uint", "uint8", "uint16", "uint32", "uint64", "uintptr"}
FloatKinds == {"float32", "float64"}

Scalar(i, s, b) == [i |-> i, s |-> s, b |-> b]
NoScalar == Scalar(0, "", FALSE)

Slot(name, exported, key, ref) ==
    [name |-> name, exported |-> exported, key |-> key, ref |-> ref]

\* rv.Interface(): the value itself, or for a value of Kind Interface the
\* dynamic value it holds (0 when it holds none).
Interface(n) ==
    IF nodes[n].kind = "interface" THEN nodes[n].slots[1].ref ELSE n

\* The type switch applied to rv itself instead of rv.Interface(): a value
\* held in an interface-typed field is then not seen to have the method.
HookOfStatic(n) == nodes[n].hook

\* The type switch of lines 137-149 on rv.Interface().
HookOf(n) ==
    IF Interface(n) = 0 THEN "none" ELSE nodes[Interface(n)].hook

\* stringify without its case for the unsigned kinds.
stringifyNoUint(kind) ==
    CASE kind = "string" -> "string"
      [] kind = "bool" -> "bool"
      [] kind \in IntKinds -> "FormatInt"
      [] kind \in FloatKinds -> "Sprintf"
      [] OTHER -> "nil"

\* stringify: the conversion chosen for a key type, "nil" when there is none.
stringify(kind) ==
    CASE kind = "string" -> "string"
      [] kind = "bool" -> "bool"
      [] kind \in IntKinds -> "FormatInt"
      [] kind \in UintKinds -> "FormatUint"
      [] kind \in FloatKinds -> "Sprintf"
      [] OTHER -> "nil"

\* fmt.Sprintf("%v", f) of a float64 given in tenths.
FormatFloat(f) ==
    LET a == IF f < 0 THEN -f ELSE f
        whole == ToString(a \div 10)
        digits == IF a % 10 = 0 THEN whole ELSE whole \o "." \o ToString(a % 10)
    IN  IF f < 0 THEN "-" \o digits ELSE digits

\* The closure stringify returns, applied to a key.
keytostr(conv, key) ==
    CASE conv = "string" -> key.s
      [] conv = "bool" -> IF key.b THEN "true" ELSE "false"
      [] conv = "FormatInt" -> ToString(key.i)
      [] conv = "FormatUint" -> ToString(key.i)
      [] conv = "Sprintf" -> FormatFloat(key.i)

\* Lines 87-93: the switch on v.Interface() compares the key with the
\* untyped constants true and false, which equal a key of type bool only: a
\* key of a defined bool type falls through to the panic.
BoolKeyFallsThrough(n) ==
    stringify(nodes[n].keyKind) = "bool" /\ nodes[n].keyType # "bool"

MapKeyProblem(n) ==
    "map key with " \o nodes[n].keyKind \o " type \"" \o nodes[n].keyType
        \o "\" cannot be stringified"

KindProblem(n) ==
    "cannot convert value of kind " \o nodes[n].kind \o " to simple value"

-----------------------------------------------------------------------------
(* The call stack machine of fromReflectValue.                             *)

MaxPathLen == 1000

\* The frames a goroutine's stack holds before the runtime kills the
\* process with a stack overflow.
MaxStack == 1100

Frame(n, path, seg) ==
    [node |-> n, path |-> path, pc |-> "enter", i |-> 0, todo |-> {},
     out |-> NilValue, seg |-> seg]

Top == stack[Len(stack)]

\* What no step of a conversion changes.
Fixed == UNCHANGED <<nodes, root, growth, first, jsonv, jsont, jsonr>>

Running == status = "running" /\ stack # <<>>

FieldSeg(name) == [k |-> "name", name |-> name, idx |-> 0]
IndexSeg(i) == [k |-> "index", name |-> "", idx |-> i]

\* `return v, e` of the innermost call.
Return(v, e) ==
    /\ stack' = SubSeq(stack, 1, Len(stack) - 1)
    /\ ret' = [val |-> v, err |-> e]
    /\ ended' = [node |-> IF Top.node = 0 THEN 0 ELSE Interface(Top.node),
                from |-> Top.node, segs |-> segs]
    /\ status' = IF Len(stack) = 1 THEN "returned" ELSE "running"
    /\ segs' = SubSeq(segs, 1, Len(segs) - Len(Top.seg))
    /\ UNCHANGED <<fault, calls, visited, arrays>>
    /\ Fixed

\* An error value is built at the innermost call.
Raise(e, h) ==
    raised' = IF raised = None
              THEN [err |-> e, node |-> Interface(Top.node), segs |-> segs,
                    calls |-> calls, hooks |-> h]
              ELSE raised

Panic(msg) ==
    /\ status' = "panic"
    /\ fault' = msg
    /\ UNCHANGED <<stack, arrays, ret, segs, raised, calls, hooks, visited, ended>>
    /\ Fixed

\* The innermost call, continuing as frame f, calls fromReflectValue(n, path)
\* with the heap left as `heap` by the evaluation of the arguments.
Call(f, n, path, seg, heap) ==
    IF Len(stack) >= MaxStack
    THEN Panic("stack overflow")
    ELSE /\ stack' = Append([stack EXCEPT ![Len(stack)] = [f EXCEPT !.pc = "wait"]],
                            Frame(n, path, seg))
         /\ arrays' = heap
         /\ ret' = None
         /\ segs' = segs \o seg
         /\ calls' = calls + 1
         /\ visited' = visited \cup ({n, Interface(n)} \ {0})
         /\ UNCHANGED <<status, fault, raised, hooks, ended>>
         /\ Fixed

\* The innermost call goes on as frame f without calling or returning.
Step(f) ==
    /\ stack' = [stack EXCEPT ![Len(stack)] = f]
    /\ ret' = None
    /\ UNCHANGED <<arrays, status, fault, segs, raised, calls, hooks, visited, ended>>
    /\ Fixed

Entering == Running /\ Top.pc = "enter"

\* Lines 133-135: an invalid reflect.Value.
EnterInvalid ==
    /\ Entering /\ Top.node = 0
    /\ Return(NilValue, NoErr)
    /\ UNCHANGED <<raised, hooks>>

\* Lines 138-139: SimpleValue() Value.
EnterHookValue ==
    /\ Entering /\ Top.node # 0 /\ HookOf(Top.node) = "value"
    /\ hooks' = hooks + 1
    /\ Return(nodes[Interface(Top.node)].hookVal, NoErr)
    /\ UNCHANGED raised

\* Lines 140-148: SimpleValue() (Value, error).
EnterHookValueError ==
    /\ Entering /\ Top.node # 0 /\ HookOf(Top.node) = "value_error"
    /\ hooks' = hooks + 1
    /\ LET n == Interface(Top.node)
       IN  IF nodes[n].hookErr # ""
           THEN LET e == fromValueWrappedError(nodes[n].hookErr, Top.path)
                IN  Raise(e, hooks + 1) /\ Return(NilValue, e)
           ELSE Return(nodes[n].hookVal, NoErr) /\ UNCHANGED raised

\* Past the type switch: rv = reflect.ValueOf(rv.Interface()).
Unpacked == Entering /\ Top.node # 0 /\ HookOf(Top.node) = "none"

\* Lines 154-156: the depth guard.
EnterTooDeep ==
    /\ Unpacked /\ Top.path.len >= MaxPathLen
    /\ Panic("fromReflectValue: value too deep")

\* The guard written with > for >=.
GuardedOffByOne == Unpacked /\ Top.path.len <= MaxPathLen

\* Past the guard.
Guarded == Unpacked /\ Top.path.len < MaxPathLen

\* Line 158: rv.Type() of the zero reflect.Value that reflect.ValueOf(nil) is.
EnterZeroValue ==
    /\ Guarded /\ Interface(Top.node) = 0
    /\ Panic("reflect: call of reflect.Value.Type on zero Value")

\* The kind switch is reached with rv the unpacked value.
Dispatch(kinds) ==
    /\ Guarded /\ Interface(Top.node) # 0
    /\ nodes[Interface(Top.node)].kind \in kinds

Here == [Top EXCEPT !.node = Interface(Top.node)]

\* Lines 162-166.
EnterPointer ==
    /\ Dispatch({"ptr"})
    /\ IF nodes[Here.node].slots[1].ref = 0
       THEN Return(NilValue, NoErr) /\ UNCHANGED <<raised, hooks>>
       ELSE Call(Here, nodes[Here.node].slots[1].ref, Here.path, <<>>, arrays)

\* Lines 167-168.
EnterStruct ==
    /\ Dispatch({"struct"})
    /\ Step([Here EXCEPT !.pc = "loop", !.i = 1, !.out = EmptyStruct])

\* Lines 181-187.
EnterMap ==
    /\ Dispatch({"map"})
    /\ IF stringify(nodes[Here.node].keyKind) = "nil"
       THEN LET e == fromValueError(Here.path, MapKeyProblem(Here.node))
            IN  Raise(e, hooks) /\ Return(NilValue, e) /\ UNCHANGED hooks
       ELSE Step([Here EXCEPT !.pc = "loop", !.out = EmptyStruct,
                              !.todo = DOMAIN nodes[Here.node].slots])

\* Lines 199-200.
EnterSlice ==
    /\ Dispatch({"array", "slice"})
    /\ Step([Here EXCEPT !.pc = "loop", !.i = 1, !.out = ArrayOf(<<>>)])

\* Lines 211-216.
EnterString ==
    /\ Dispatch({"string"})
    /\ Return(StringOf(nodes[Here.node].val.s), NoErr)
    /\ UNCHANGED <<raised, hooks>>

\* Lines 219-226: Convert(builtinFloat64).
ToFloat64(n) ==
    IF nodes[n].kind \in FloatKinds THEN nodes[n].val.i ELSE nodes[n].val.i * 10

EnterNumber ==
    /\ Dispatch(IntKinds \cup UintKinds \cup FloatKinds)
    /\ Return(NumberOf(ToFloat64(Here.node)), NoErr)
    /\ UNCHANGED <<raised, hooks>>

\* Lines 228-232.
EnterBool ==
    /\ Dispatch({"bool"})
    /\ Return(BoolOf(nodes[Here.node].val.b), NoErr)
    /\ UNCHANGED <<raised, hooks>>

SupportedKinds ==
    {"ptr", "struct", "map", "array", "slice", "string", "bool"}
        \cup IntKinds \cup UintKinds \cup FloatKinds

\* Lines 234-239.
EnterUnsupported ==
    /\ Guarded /\ Interface(Top.node) # 0
    /\ nodes[Interface(Top.node)].kind \notin SupportedKinds
    /\ LET e == fromValueError(Here.path, KindProblem(Here.node))
       IN  Raise(e, hooks) /\ Return(NilValue, e)
    /\ UNCHANGED hooks

Looping(kinds) ==
    /\ Running /\ Top.pc = "loop" /\ ret = None
    /\ nodes[Top.node].kind \in kinds

\* The loop over the fields without the IsExported test of line 171.
StructLoopAllFields ==
    /\ Looping({"struct"})
    /\ LET n == Top.node
           i == Top.i
       IN  IF i > Len(nodes[n].slots)
           THEN Return(Top.out, NoErr) /\ UNCHANGED <<raised, hooks>>
           ELSE LET key == nodes[n].slots[i].name
                IN  Call(Top, nodes[n].slots[i].ref,
                         AppendSlice(arrays, growth, Top.path, <<".", key>>),
                         <<FieldSeg(key)>>,
                         AppendHeap(arrays, growth, Top.path, <<".", key>>))

\* Lines 169-180: one turn of the loop over the fields.
StructLoop ==
    /\ Looping({"struct"})
    /\ LET n == Top.node
           i == Top.i
       IN  IF i > Len(nodes[n].slots)
           THEN Return(Top.out, NoErr) /\ UNCHANGED <<raised, hooks>>
           ELSE IF ~nodes[n].slots[i].exported
           THEN Step([Top EXCEPT !.i = i + 1])
           ELSE LET key == nodes[n].slots[i].name
                IN  Call(Top, nodes[n].slots[i].ref,
                         AppendSlice(arrays, growth, Top.path, <<".", key>>),
                         <<FieldSeg(key)>>,
                         AppendHeap(arrays, growth, Top.path, <<".", key>>))

\* Lines 188-198: one turn of the loop over the entries, in any order.
MapLoop ==
    /\ Looping({"map"})
    /\ LET n == Top.node
       IN  IF Top.todo = {}
           THEN Return(Top.out, NoErr) /\ UNCHANGED <<raised, hooks>>
           ELSE IF BoolKeyFallsThrough(n)
           THEN Panic("impossible: stringify bool was not true or false")
           ELSE \E i \in Top.todo :
                LET keystr == keytostr(stringify(nodes[n].keyKind), nodes[n].slots[i].key)
                IN  Call([Top EXCEPT !.i = i, !.todo = @ \ {i}],
                         nodes[n].slots[i].ref,
                         AppendSlice(arrays, growth, Top.path, <<".", keystr>>),
                         <<FieldSeg(keystr)>>,
                         AppendHeap(arrays, growth, Top.path, <<".", keystr>>))

\* The index segment counted from one.
IndexElemFromOne(i) == "[" \o ToString(i + 1) \o "]"

\* fmt.Sprintf("[%d]", i)
IndexElem(i) == "[" \o ToString(i) \o "]"

\* Lines 201-208: one turn of the loop over the elements.
SliceLoop ==
    /\ Looping({"array", "slice"})
    /\ LET n == Top.node
           i == Top.i
       IN  IF i > Len(nodes[n].slots)
           THEN Return(Top.out, NoErr) /\ UNCHANGED <<raised, hooks>>
           ELSE Call(Top, nodes[n].slots[i].ref,
                     AppendSlice(arrays, growth, Top.path, <<IndexElem(i - 1)>>),
                     <<IndexSeg(i - 1)>>,
                     AppendHeap(arrays, growth, Top.path, <<IndexElem(i - 1)>>))

Resuming(kinds) ==
    /\ Running /\ Top.pc = "wait" /\ ret # None
    /\ nodes[Top.node].kind \in kinds

\* Line 166: return fromReflectValue(rv.Elem(), path).
PointerResume ==
    /\ Resuming({"ptr"})
    /\ Return(ret.val, ret.err)
    /\ UNCHANGED <<raised, hooks>>

\* Lines 175-178 without the test of err: the field is stored and the loop
\* goes on.
StructResumeUnchecked ==
    /\ Resuming({"struct"})
    /\ Step([Top EXCEPT !.pc = "loop", !.i = @ + 1,
                !.out = StructPut(@, nodes[Top.node].slots[Top.i].name, ret.val)])
    /\ UNCHANGED <<raised, hooks>>

\* Lines 175-178.
StructResume ==
    /\ Resuming({"struct"})
    /\ IF ret.err # NoErr
       THEN Return(NilValue, ret.err)
       ELSE Step([Top EXCEPT !.pc = "loop", !.i = @ + 1,
                    !.out = StructPut(@, nodes[Top.node].slots[Top.i].name, ret.val)])
    /\ UNCHANGED <<raised, hooks>>

\* Lines 193-196.
MapResume ==
    /\ Resuming({"map"})
    /\ IF ret.err # NoErr
       THEN Return(NilValue, ret.err)
       ELSE Step([Top EXCEPT !.pc = "loop",
                    !.out = StructPut(@,
                              keytostr(stringify(nodes[Top.node].keyKind),
                                       nodes[Top.node].slots[Top.i].key),
                              ret.val)])
    /\ UNCHANGED <<raised, hooks>>

\* Lines 203-206.
SliceResume ==
    /\ Resuming({"array", "slice"})
    /\ IF ret.err # NoErr
       THEN Return(NilValue, ret.err)
       ELSE Step([Top EXCEPT !.pc = "loop", !.i = @ + 1,
                    !.out = ArrayOf(Append(@.a, ret.val))])
    /\ UNCHANGED <<raised, hooks>>

fromReflectValue ==
    \/ EnterInvalid
    \/ EnterHookValue
    \/ EnterHookValueError
    \/ EnterTooDeep
    \/ EnterZeroValue
    \/ EnterPointer
    \/ EnterStruct
    \/ EnterMap
    \/ EnterSlice
    \/ EnterString
    \/ EnterNumber
    \/ EnterBool
    \/ EnterUnsupported
    \/ StructLoop
    \/ MapLoop
    \/ SliceLoop
    \/ PointerResume
    \/ StructResume
    \/ MapResume
    \/ SliceResume

\* FromValue(v): fromReflectValue(reflect.ValueOf(v), []string{}).
FromValue ==
    /\ stack = <<Frame(root, EmptyPath, <<>>)>>
    /\ arrays = <<>>
    /\ ret = None
    /\ status = "running"
    /\ fault = ""
    /\ segs = <<>>
    /\ raised = None
    /\ ended = None
    /\ calls = 1
    /\ hooks = 0
    /\ visited = {root, IF root = 0 THEN 0 ELSE Interface(root)} \ {0}

\* What a caller observes of a finished FromValue: the Value and err.Error().
Outcome ==
    [val |-> ret.val,
     err |-> IF ret.err = NoErr THEN "" ELSE ErrorText(arrays, ret.err)]

\* The caller keeps the outcome and calls FromValue on the same input again.
Again ==
    /\ status = "returned"
    /\ first = None
    /\ first' = Outcome
    /\ stack' = <<Frame(root, EmptyPath, <<>>)>>
    /\ arrays' = <<>>
    /\ ret' = None
    /\ status' = "running"
    /\ segs' = <<>>
    /\ raised' = None
    /\ ended' = None
    /\ calls' = 1
    /\ hooks' = 0
    /\ visited' = {root, IF root = 0 THEN 0 ELSE Interface(root)} \ {0}
    /\ UNCHANGED <<fault, nodes, root, growth, jsonv, jsont, jsonr>>

-----------------------------------------------------------------------------
(* Inputs.  An input is written as a term, a host value with its members   *)
(* nested in it, and laid out as `nodes` in preorder.                      *)

NilT == [nilt |-> TRUE]

Node(kind, type, slots) ==
    [kind |-> kind, type |-> type, hook |-> "none", hookVal |-> NilValue,
     hookErr |-> "", slots |-> slots, keyKind |-> "", keyType |-> "",
     val |-> NoScalar]

Term(n, kids) == [n |-> n, kids |-> kids]

StringT(type, s) == Term([Node("string", type, <<>>) EXCEPT !.val = Scalar(0, s, FALSE)], <<>>)
NumberT(kind, i) == Term([Node(kind, kind, <<>>) EXCEPT !.val = Scalar(i, "", FALSE)], <<>>)
BoolT(type, b) == Term([Node("bool", type, <<>>) EXCEPT !.val = Scalar(0, "", b)], <<>>)
OtherT(kind, type) == Term(Node(kind, type, <<>>), <<>>)
\* A pointer to t, or with t = NilT a nil pointer.
PtrT(t) == Term(Node("ptr", "*T", <<Slot("", FALSE, NoScalar, 0)>>), <<t>>)
\* An interface-typed variable holding t, or with t = NilT a nil interface.
IfaceT(t) == Term(Node("interface", "interface {}", <<Slot("", FALSE, NoScalar, 0)>>), <<t>>)
\* fields: a sequence of <<name, exported, term>>.
StructT(type, fields) ==
    Term(Node("struct", type,
              [i \in DOMAIN fields |-> Slot(fields[i][1], fields[i][2], NoScalar, 0)]),
         [i \in DOMAIN fields |-> fields[i][3]])
\* entries: a sequence of <<key, term>>.
MapT(keyKind, keyType, entries) ==
    Term([Node("map", "map", [i \in DOMAIN entries |-> Slot("", FALSE, entries[i][1], 0)])
            EXCEPT !.keyKind = keyKind, !.keyType = keyType],
         [i \in DOMAIN entries |-> entries[i][2]])
SliceT(kind, elems) ==
    Term(Node(kind, "[]T", [i \in DOMAIN elems |-> Slot("", FALSE, NoScalar, 0)]), elems)
\* t with a SimpleValue method of the given form in its method set.
HookT(form, v, err, t) ==
    Term([t.n EXCEPT !.hook = form, !.hookVal = v, !.hookErr = err], t.kids)

RECURSIVE Size(_), SizeAll(_)
Size(t) == IF t = NilT THEN 0 ELSE 1 + SizeAll(t.kids)
SizeAll(ts) == IF ts = <<>> THEN 0 ELSE Size(Head(ts)) + SizeAll(Tail(ts))

\* The nodes of term t, t itself at index id.
RECURSIVE Layout(_, _), LayoutAll(_, _)
Layout(t, id) ==
    LET ref(i) == IF t.kids[i] = NilT THEN 0
                  ELSE id + 1 + SizeAll(SubSeq(t.kids, 1, i - 1))
    IN  <<[t.n EXCEPT !.slots =
              [i \in DOMAIN t.n.slots |-> [t.n.slots[i] EXCEPT !.ref = ref(i)]]]>>
        \o LayoutAll(t.kids, id + 1)
LayoutAll(ts, id) ==
    IF ts = <<>> THEN <<>>
    ELSE IF Head(ts) = NilT THEN LayoutAll(Tail(ts), id)
    ELSE Layout(Head(ts), id) \o LayoutAll(Tail(ts), id + Size(Head(ts)))

\* FromValue(v) for the value a term describes; FromValue(nil) for NilT.
Input(t) ==
    IF t = NilT THEN [nodes |-> <<>>, root |-> 0]
    ELSE [nodes |-> Layout(t, 1), root |-> 1]

TestInputs ==
    { NilT,
      PtrT(NilT),
      StructT("struct {}", <<>>),
      StructT("simple.a", << <<"B", TRUE, IfaceT(PtrT(StructT("errors.errorString", << <<"s", FALSE, StringT("string", "test?")>> >>)))>>,
                             <<"C", TRUE, NumberT("int", 1)>> >>),
      StructT("simple.a", << <<"M", TRUE, MapT("string", "string", << <<Scalar(0, "Nothing", FALSE),
                    StructT("simple.a", << <<"M", TRUE, MapT("string", "string", <<>>)>> >>)>> >>)>> >>),
      MapT("int", "int", << <<Scalar(5, "", FALSE), IfaceT(StructT("simple.a",
                    << <<"M", TRUE, MapT("array", "simple.mk", << <<NoScalar, StringT("string", "cool?")>> >>)>> >>))>>,
                            <<Scalar(10, "", FALSE), IfaceT(BoolT("bool", FALSE))>> >>),
      MapT("string", "string", << <<Scalar(0, "p", FALSE), IfaceT(SliceT("array", <<OtherT("chan", "chan int")>>))>> >>),
      MapT("string", "string", << <<Scalar(0, "stuff", FALSE), IfaceT(SliceT("array",
                    <<IfaceT(BoolT("bool", FALSE)), IfaceT(NumberT("float64", 31)), IfaceT(StringT("string", "hello"))>>))>> >>),
      MapT("uint16", "simple.mySpecialNumber",
           << <<Scalar(62, "", FALSE), IfaceT(BoolT("simple.mySpecialBool", TRUE))>>,
              <<Scalar(63, "", FALSE), IfaceT(StringT("simple.mySpecialString", "what?"))>>,
              <<Scalar(64, "", FALSE), IfaceT(NumberT("uintptr", 123))>> >>) }

\* The sequences over S of length at most n.
RECURSIVE SeqsUpTo(_, _)
SeqsUpTo(S, n) ==
    IF n = 0 THEN {<<>>}
    ELSE LET shorter == SeqsUpTo(S, n - 1)
         IN  shorter \cup {Append(q, x) : q \in {r \in shorter : Len(r) = n - 1}, x \in S}

\* The members a composite of the generated inputs holds at most.
MaxKids == 2

FieldNames == <<"A", "B", "C", "D">>
StringKeys == <<"a", "b", "c", "d">>

StructOfTerms(ts) ==
    StructT("simple.T", [i \in DOMAIN ts |-> <<FieldNames[i], TRUE, ts[i]>>])
MapOfTerms(ts) ==
    MapT("string", "string", [i \in DOMAIN ts |-> <<Scalar(0, StringKeys[i], FALSE), ts[i]>>])
SliceOfTerms(ts) == SliceT("slice", ts)

HookedValue == HookT("value", StringOf("hooked"), "", StructT("simple.hv", <<>>))
HookedError == HookT("value_error", StringOf("dropped"), "boom", StructT("simple.he", <<>>))

\* Values without members.
Leaves ==
    { StringT("string", "x"),
      PtrT(NilT),
      IfaceT(NilT),
      IfaceT(BoolT("bool", TRUE)),
      OtherT("chan", "chan int"),
      HookedError }

\* One composite over leaves.
Fans ==
    LET kids == SeqsUpTo(Leaves, MaxKids)
    IN  {StructOfTerms(ts) : ts \in kids}
        \cup {MapOfTerms(ts) : ts \in kids}
        \cup {SliceOfTerms(ts) : ts \in kids}
        \cup {PtrT(t) : t \in Leaves \ {IfaceT(NilT), IfaceT(BoolT("bool", TRUE))}}
        \cup {StructT("simple.U", << <<"u", FALSE, t>>, <<"E", TRUE, u>> >>) :
                t \in {StringT("string", "x"), OtherT("chan", "chan int"), HookedError},
                u \in {StringT("string", "x"), OtherT("chan", "chan int")}}
        \cup {StructT("simple.U", << <<"u", FALSE, t>> >>) :
                t \in {StringT("string", "x"), OtherT("chan", "chan int"), HookedError}}

Siblings == {StringT("string", "x"), OtherT("chan", "chan int")}

\* One composite over a composite of strings and chans, alone or beside one
\* leaf.
Nests ==
    LET inner == SeqsUpTo(Siblings, MaxKids)
        fans == {StructOfTerms(ts) : ts \in inner}
                    \cup {MapOfTerms(ts) : ts \in inner}
                    \cup {SliceOfTerms(ts) : ts \in inner}
        kids == {<<m>> : m \in fans}
                \cup {<<m, x>> : m \in fans, x \in Siblings}
                \cup {<<x, m>> : m \in fans, x \in Siblings}
    IN  {StructOfTerms(ts) : ts \in kids}
        \cup {MapOfTerms(ts) : ts \in kids}
        \cup {SliceOfTerms(ts) : ts \in kids}
        \cup {PtrT(m) : m \in fans}

\* Slices of slices under a field or a key: where the runtime's append first
\* leaves spare capacity to the paths of sibling elements.
Towers ==
    LET inner == {SliceOfTerms(ts) : ts \in SeqsUpTo(Siblings, MaxKids)}
    IN  {StructOfTerms(<<SliceOfTerms(<<m>>)>>) : m \in inner}
        \cup {MapOfTerms(<<IfaceT(SliceOfTerms(<<m, x>>))>>) : m \in inner, x \in Siblings}

\* Every kind a value can have, alone.
AllKinds ==
    {"bool", "string", "complex64", "complex128", "chan", "func", "unsafe.Pointer"}
        \cup IntKinds \cup UintKinds \cup FloatKinds

KindInputs ==
    {NumberT(k, i) : k \in IntKinds, i \in {-3, 7}}
        \cup {NumberT(k, 7) : k \in UintKinds}
        \cup {NumberT(k, i) : k \in FloatKinds, i \in {-25, 30}}
        \cup {StringT(t, "x") : t \in {"string", "simple.mySpecialString"}}
        \cup {BoolT(t, b) : t \in {"bool", "simple.mySpecialBool"}, b \in BOOLEAN}
        \cup {OtherT(k, k) : k \in {"complex64", "complex128", "chan", "func", "unsafe.Pointer"}}

\* The kinds a map's key type can have (func, map and slice are not comparable).
KeyKinds ==
    (AllKinds \ {"func"}) \cup {"array", "struct", "ptr", "interface"}

KeySamples(kind) ==
    CASE kind = "string" -> <<Scalar(0, "k", FALSE), Scalar(0, "j", FALSE)>>
      [] kind = "bool" -> <<Scalar(0, "", TRUE), Scalar(0, "", FALSE)>>
      [] kind \in IntKinds -> <<Scalar(-5, "", FALSE), Scalar(10, "", FALSE)>>
      [] kind \in UintKinds -> <<Scalar(5, "", FALSE), Scalar(10, "", FALSE)>>
      [] kind \in FloatKinds -> <<Scalar(15, "", FALSE), Scalar(20, "", FALSE)>>
      [] OTHER -> <<Scalar(1, "", FALSE), Scalar(2, "", FALSE)>>

\* Maps of every key kind, of the kind's own type and of a defined type.
KeyedMaps ==
    {MapT(k, "simple.K", [i \in 1..n |-> <<KeySamples(k)[i], StringT("string", "x")>>]) :
                k \in KeyKinds, n \in 0..2}
        \cup {MapT(k, k, [i \in 1..n |-> <<KeySamples(k)[i], StringT("string", "x")>>]) :
                k \in {"string", "bool", "int", "uint8", "float64", "complex128"}, n \in 0..2}

MapInputs ==
    KeyedMaps
        \cup {StructT("simple.a", << <<"M", TRUE, m>> >>) : m \in KeyedMaps}
        \cup {MapT("int", "int", << <<Scalar(5, "", FALSE), IfaceT(StructT("simple.a", << <<"M", TRUE, m>> >>))>>,
                                    <<Scalar(10, "", FALSE), IfaceT(BoolT("bool", FALSE))>> >>) : m \in KeyedMaps}
        \cup {SliceOfTerms(<<StringT("string", "x"), m>>) : m \in KeyedMaps}

\* Values with a SimpleValue method, of every underlying shape.
Hooked ==
    LET under == {PtrT(NilT), PtrT(StructOfTerms(<<OtherT("chan", "chan int")>>)),
                  StructOfTerms(<<OtherT("chan", "chan int"), HookedValue>>),
                  OtherT("chan", "chan int"), StringT("simple.S", "x"),
                  MapT("array", "simple.mk", <<>>)}
        vals == {NilValue, StringOf("hooked"), StructOf([k \in {"A"} |-> NumberOf(10)])}
    IN  {HookT("value", v, "", t) : v \in vals, t \in under}
        \cup {HookT("value_error", v, e, t) : v \in vals, e \in {"", "boom"}, t \in under}

HookInputs ==
    Hooked
        \cup {StructOfTerms(<<IfaceT(h), StringT("string", "x")>>) : h \in Hooked}
        \cup {SliceOfTerms(<<StringT("string", "x"), PtrT(h)>>) : h \in Hooked}
        \cup {MapOfTerms(<<h, HookedValue>>) : h \in Hooked}
        \cup {StructOfTerms(<<OtherT("chan", "chan int"), h>>) : h \in Hooked}

TreeInputs ==
    {Input(t) : t \in TestInputs \cup (Leaves \ {IfaceT(NilT), IfaceT(BoolT("bool", TRUE))})
                        \cup Fans \cup Nests \cup Towers
                        \cup KindInputs \cup MapInputs \cup HookInputs}

\* Self-referential values: the nodes of a term with one reference tied back.
Tie(ns, i, k, j) == [ns EXCEPT ![i].slots[k].ref = j]

\* type P *P; p = &p
SelfPointer == Tie(Layout(PtrT(NilT), 1), 1, 1, 1)
\* var x any; x = &x
InterfacePointer == Tie(Layout(PtrT(IfaceT(NilT)), 1), 2, 1, 1)
\* type N struct{ Next *N }; n.Next = &n
Ring == Tie(Layout(StructT("simple.N", << <<"Next", TRUE, PtrT(NilT)>> >>), 1), 2, 1, 1)
\* type S []S; s[0] = s
SelfSlice == Tie(Layout(SliceOfTerms(<<NilT>>), 1), 1, 1, 1)
\* m := map[string]any{}; m["a"] = m
SelfMap == Tie(Layout(MapOfTerms(<<IfaceT(NilT)>>), 1), 2, 1, 1)
\* type T struct{ A []*T }; t.A[0] = &t
Braid == Tie(Layout(StructOfTerms(<<SliceOfTerms(<<PtrT(NilT)>>)>>), 1), 3, 1, 1)

\* type N struct{ Next any }: a list of n structs, each held by value in the
\* Next of the one before, the last one's Next holding the value `last`.
LinkedList(n, last) ==
    [i \in 1..(2 * n + 1) |->
        IF i = 2 * n + 1 THEN last.n
        ELSE IF i % 2 = 1
        THEN Node("struct", "simple.N", <<Slot("Next", TRUE, NoScalar, i + 1)>>)
        ELSE Node("interface", "interface {}", <<Slot("", FALSE, NoScalar, i + 1)>>)]

DeepInputs ==
    {[nodes |-> ns, root |-> 1] :
        ns \in {SelfPointer, InterfacePointer, Ring, SelfSlice, SelfMap, Braid}
               \cup {LinkedList(MaxPathLen \div 2, HookedError)}}

GrowthPolicies == {"runtime", "spare", "exact"}

Init ==
    /\ \/ \E in \in TreeInputs :
            nodes = in.nodes /\ root = in.root /\ growth \in GrowthPolicies
       \/ \E in \in DeepInputs :
            nodes = in.nodes /\ root = in.root /\ growth = "runtime"
    /\ FromValue
    /\ first = None
    /\ jsonv = None /\ jsont = None /\ jsonr = None

Next == fromReflectValue

Spec == Init /\ [][Next]_vars

\* Two conversions of one input, one after the other.
NextTwice == fromReflectValue \/ Again

SpecTwice == Init /\ [][NextTwice]_vars

-----------------------------------------------------------------------------
(* The JSON bridge: json.Marshal of a Value, and FromJSON, which is         *)
(* json.Unmarshal into an `any` followed by fastFromValue.  JSON text is a  *)
(* sequence of characters, and so is a Go string here: String and the keys  *)
(* of a Struct hold sequences of characters, "xFF" standing for a byte that *)
(* is not valid UTF-8 and "uFFFD" for the character U+FFFD.                 *)

\* Struct(nil), Array(nil) and Number(math.NaN()).
NilStruct == [t |-> "Struct", m |-> <<>>, isnil |-> TRUE]
NilArray == [t |-> "Array", a |-> <<>>, isnil |-> TRUE]
NaN == [t |-> "Number", f |-> 0, nan |-> TRUE]

Digits == <<"0", "1", "2", "3", "4", "5", "6", "7", "8", "9">>

RECURSIVE Itoa(_)
Itoa(n) ==
    IF n < 10 THEN <<Digits[n + 1]>> ELSE Append(Itoa(n \div 10), Digits[(n % 10) + 1])

\* encoding/json's floatEncoder: strconv.AppendFloat(b, f, 'f', -1, 64) of a
\* float64 given in tenths.
EncodeFloat(f) ==
    LET a == IF f < 0 THEN -f ELSE f
    IN  (IF f < 0 THEN <<"-">> ELSE <<>>) \o Itoa(a \div 10)
            \o (IF a % 10 = 0 THEN <<>> ELSE <<".", Digits[(a % 10) + 1]>>)

\* encoding/json's appendString with escapeHTML: one character of a string.
EscapeChar(c) ==
    CASE c = "\"" -> <<"\\", "\"">>
      [] c = "\\" -> <<"\\", "\\">>
      [] c = "<" -> <<"\\", "u", "0", "0", "3", "c">>
      [] c = "xFF" -> <<"\\", "u", "f", "f", "f", "d">>
      [] OTHER -> <<c>>

RECURSIVE Concat(_)
Concat(ss) == IF ss = <<>> THEN <<>> ELSE Head(ss) \o Concat(Tail(ss))

EncodeString(str) ==
    <<"\"">> \o Concat([i \in DOMAIN str |-> EscapeChar(str[i])]) \o <<"\"">>

\* The order of the bytes the model's strings are made of.
Alphabet == <<"\"", "<", "\\", "a", "b", "c", "e", "h", "l", "p", "t", "xFF", "uFFFD">>
Rank(c) == CHOOSE r \in DOMAIN Alphabet : Alphabet[r] = c

RECURSIVE KeyLess(_, _)
KeyLess(k1, k2) ==
    IF k1 = <<>> THEN k2 # <<>>
    ELSE IF k2 = <<>> THEN FALSE
    ELSE IF Head(k1) = Head(k2) THEN KeyLess(Tail(k1), Tail(k2))
    ELSE Rank(Head(k1)) < Rank(Head(k2))

\* encoding/json's mapEncoder writes the keys sorted.
RECURSIVE SortKeys(_)
SortKeys(ks) ==
    IF ks = {} THEN <<>>
    ELSE LET least == CHOOSE k \in ks : \A j \in ks \ {k} : KeyLess(k, j)
         IN  <<least>> \o SortKeys(ks \ {least})

RECURSIVE JoinComma(_)
JoinComma(ss) ==
    IF ss = <<>> THEN <<>>
    ELSE IF Len(ss) = 1 THEN ss[1]
    ELSE ss[1] \o <<",">> \o JoinComma(Tail(ss))

Rendered(text) == [ok |-> TRUE, text |-> text, err |-> ""]
Unsupported(msg) == [ok |-> FALSE, text |-> <<>>, err |-> msg]

\* json.Marshal(v)
RECURSIVE Marshal(_)
Marshal(v) ==
    CASE v.t = "nil" -> Rendered(<<"n", "u", "l", "l">>)
      [] v.t = "Bool" ->
            Rendered(IF v.b THEN <<"t", "r", "u", "e">> ELSE <<"f", "a", "l", "s", "e">>)
      [] v.t = "Number" ->
            IF "nan" \in DOMAIN v THEN Unsupported("json: unsupported value: NaN")
            ELSE Rendered(EncodeFloat(v.f))
      [] v.t = "String" -> Rendered(EncodeString(v.s))
      [] v.t = "Struct" ->
            IF "isnil" \in DOMAIN v THEN Rendered(<<"n", "u", "l", "l">>)
            ELSE LET keys == SortKeys(DOMAIN v.m)
                     parts == [i \in DOMAIN keys |-> Marshal(v.m[keys[i]])]
                     bad == {i \in DOMAIN keys : ~parts[i].ok}
                 IN  IF bad # {} THEN parts[CHOOSE i \in bad : \A j \in bad : i <= j]
                     ELSE Rendered(<<"{">>
                            \o JoinComma([i \in DOMAIN keys |->
                                    EncodeString(keys[i]) \o <<":">> \o parts[i].text])
                            \o <<"}">>)
      [] v.t = "Array" ->
            IF "isnil" \in DOMAIN v THEN Rendered(<<"n", "u", "l", "l">>)
            ELSE LET parts == [i \in DOMAIN v.a |-> Marshal(v.a[i])]
                     bad == {i \in DOMAIN v.a : ~parts[i].ok}
                 IN  IF bad # {} THEN parts[CHOOSE i \in bad : \A j \in bad : i <= j]
                     ELSE Rendered(<<"[">> \o JoinComma([i \in DOMAIN v.a |-> parts[i].text])
                            \o <<"]">>)

\* What json.Unmarshal stores in an `any`.
AnyNil == [t |-> "nil"]
AnyBool(b) == [t |-> "bool", b |-> b]
AnyFloat64(f) == [t |-> "float64", f |-> f]
AnyString(str) == [t |-> "string", s |-> str]
AnySlice(a) == [t |-> "[]any", a |-> a]
AnyMap(m) == [t |-> "map[string]any", m |-> m]

SyntaxError == [ok |-> FALSE]
Parsed(v, i) == [ok |-> TRUE, v |-> v, i |-> i]

At(text, i) == IF i >= 1 /\ i <= Len(text) THEN text[i] ELSE ""

RECURSIVE SkipSpace(_, _)
SkipSpace(text, i) == IF At(text, i) = " " THEN SkipSpace(text, i + 1) ELSE i

Literal(text, i, word, v) ==
    IF i + Len(word) - 1 <= Len(text) /\ SubSeq(text, i, i + Len(word) - 1) = word
    THEN Parsed(v, i + Len(word))
    ELSE SyntaxError

IsDigit(c) == \E d \in DOMAIN Digits : Digits[d] = c
DigitVal(c) == (CHOOSE d \in DOMAIN Digits : Digits[d] = c) - 1

\* The digits from position i on: their value, their number, the position
\* after them.
RECURSIVE ParseDigits(_, _, _, _)
ParseDigits(text, i, n, count) ==
    IF IsDigit(At(text, i))
    THEN ParseDigits(text, i + 1, 10 * n + DigitVal(text[i]), count + 1)
    ELSE [n |-> n, count |-> count, i |-> i]

\* A number literal, to a float64 in tenths (one fractional digit).
ParseNumber(text, i) ==
    LET neg == At(text, i) = "-"
        whole == ParseDigits(text, IF neg THEN i + 1 ELSE i, 0, 0)
        frac == IF At(text, whole.i) = "."
                THEN ParseDigits(text, whole.i + 1, 0, 0)
                ELSE [n |-> 0, count |-> 1, i |-> whole.i]
        tenths == 10 * whole.n + frac.n
    IN  IF whole.count = 0 \/ frac.count # 1 THEN SyntaxError
        ELSE Parsed(AnyFloat64(IF neg THEN -tenths ELSE tenths), frac.i)

\* The character a \uXXXX escape stands for.
Unescape(hex) ==
    CASE hex = <<"0", "0", "3", "c">> -> "<"
      [] hex = <<"f", "f", "f", "d">> -> "uFFFD"
      [] OTHER -> "uFFFD"

\* A string literal from after its opening quote.
RECURSIVE ParseString(_, _, _)
ParseString(text, i, acc) ==
    LET c == At(text, i)
    IN  CASE c = "" -> SyntaxError
          [] c = "\"" -> Parsed(acc, i + 1)
          [] c = "\\" ->
                LET e == At(text, i + 1)
                IN  CASE e = "\"" \/ e = "\\" -> ParseString(text, i + 2, Append(acc, e))
                      [] e = "u" /\ i + 5 <= Len(text) ->
                            ParseString(text, i + 6,
                                        Append(acc, Unescape(SubSeq(text, i + 2, i + 5))))
                      [] OTHER -> SyntaxError
          [] OTHER -> ParseString(text, i + 1, Append(acc, c))

RECURSIVE ParseValue(_, _), ParseElements(_, _, _), ParseMembers(_, _, _)

\* One JSON value from position i on, after any spaces.
ParseValue(text, i) ==
    LET j == SkipSpace(text, i)
        c == At(text, j)
    IN  CASE c = "n" -> Literal(text, j, <<"n", "u", "l", "l">>, AnyNil)
          [] c = "t" -> Literal(text, j, <<"t", "r", "u", "e">>, AnyBool(TRUE))
          [] c = "f" -> Literal(text, j, <<"f", "a", "l", "s", "e">>, AnyBool(FALSE))
          [] c = "\"" ->
                LET r == ParseString(text, j + 1, <<>>)
                IN  IF r.ok THEN Parsed(AnyString(r.v), r.i) ELSE SyntaxError
          [] c = "-" \/ IsDigit(c) -> ParseNumber(text, j)
          [] c = "[" ->
                IF At(text, SkipSpace(text, j + 1)) = "]"
                THEN Parsed(AnySlice(<<>>), SkipSpace(text, j + 1) + 1)
                ELSE ParseElements(text, j + 1, <<>>)
          [] c = "{" ->
                IF At(text, SkipSpace(text, j + 1)) = "}"
                THEN Parsed(AnyMap(<<>>), SkipSpace(text, j + 1) + 1)
                ELSE ParseMembers(text, j + 1, <<>>)
          [] OTHER -> SyntaxError

\* The elements of an array from position i on, acc the ones before.
ParseElements(text, i, acc) ==
    LET r == ParseValue(text, i)
        j == IF r.ok THEN SkipSpace(text, r.i) ELSE 0
    IN  IF ~r.ok THEN SyntaxError
        ELSE IF At(text, j) = "," THEN ParseElements(text, j + 1, Append(acc, r.v))
        ELSE IF At(text, j) = "]" THEN Parsed(AnySlice(Append(acc, r.v)), j + 1)
        ELSE SyntaxError

\* The members of an object from position i on, acc the ones before; a key
\* met again replaces its value.
ParseMembers(text, i, acc) ==
    LET k == SkipSpace(text, i)
        key == IF At(text, k) = "\"" THEN ParseString(text, k + 1, <<>>) ELSE SyntaxError
        c == IF key.ok THEN SkipSpace(text, key.i) ELSE 0
        r == IF key.ok /\ At(text, c) = ":" THEN ParseValue(text, c + 1) ELSE SyntaxError
        j == IF r.ok THEN SkipSpace(text, r.i) ELSE 0
        m == [x \in (DOMAIN acc) \cup {key.v} |-> IF x = key.v THEN r.v ELSE acc[x]]
    IN  IF ~r.ok THEN SyntaxError
        ELSE IF At(text, j) = "," THEN ParseMembers(text, j + 1, m)
        ELSE IF At(text, j) = "}" THEN Parsed(AnyMap(m), j + 1)
        ELSE SyntaxError

\* json.Unmarshal(jb, &anyv)
Unmarshal(text) ==
    LET r == ParseValue(text, 1)
    IN  IF r.ok /\ SkipSpace(text, r.i) = Len(text) + 1 THEN r ELSE SyntaxError

\* Lines 34-58.
RECURSIVE fastFromValue(_)
fastFromValue(v) ==
    CASE v.t = "map[string]any" -> StructOf([k \in DOMAIN v.m |-> fastFromValue(v.m[k])])
      [] v.t = "[]any" -> ArrayOf([i \in DOMAIN v.a |-> fastFromValue(v.a[i])])
      [] v.t = "float64" -> NumberOf(v.f)
      [] v.t = "bool" -> BoolOf(v.b)
      [] v.t = "string" -> StringOf(v.s)
      [] v.t = "nil" -> NilValue

JSONIdle == UNCHANGED convVars

\* Lines 242-248: the text of jsonv, or the panic on json.Marshal's error.
mustJSONEncodeValue ==
    /\ jsonv # None /\ jsont = None
    /\ jsont' = Marshal(jsonv)
    /\ UNCHANGED <<jsonv, jsonr>>
    /\ JSONIdle

\* Lines 24-30.
FromJSON ==
    /\ jsont # None /\ jsont.ok /\ jsonr = None
    /\ LET u == Unmarshal(jsont.text)
       IN  jsonr' = IF u.ok THEN [val |-> fastFromValue(u.v), err |-> ""]
                    ELSE [val |-> NilValue, err |-> "invalid character"]
    /\ UNCHANGED <<jsonv, jsont>>
    /\ JSONIdle

\* The Values of the public types, nested twice at most.
Keys == <<<<"a">>, <<"b", "a">>, <<"<">>, <<>>>>

JSONLeaves ==
    { NilValue, BoolOf(TRUE), BoolOf(FALSE),
      NumberOf(0), NumberOf(15), NumberOf(-20), NumberOf(1230), NaN,
      StringOf(<<>>), StringOf(<<"a", "b">>), StringOf(<<"a", "\"", "\\">>),
      StringOf(<<"<">>), StringOf(<<"xFF">>),
      EmptyStruct, NilStruct, ArrayOf(<<>>), NilArray }

StructsOver(vs) ==
    UNION {{StructOf(m) : m \in [{Keys[i] : i \in ks} -> vs]} :
              ks \in {x \in SUBSET (1..Len(Keys)) : Cardinality(x) \in 1..MaxKids}}

ArraysOver(vs) ==
    {ArrayOf(a) : a \in SeqsUpTo(vs, MaxKids) \ {<<>>}}

JSONValues ==
    LET flat == ArraysOver(JSONLeaves) \cup StructsOver(JSONLeaves)
    IN  JSONLeaves \cup flat
            \cup {ArrayOf(<<v>>) : v \in flat}
            \cup {StructOf([k \in {<<"a">>} |-> v]) : v \in flat}

\* The inputs and expected outputs of TestJSONDecode that the model's
\* numbers can express.
TestTexts ==
    { [text |-> <<"{", "\"", "a", "l", "p", "h", "a", "\"", ":", "[",
                  "\"", "b", "e", "t", "a", "\"", ",", " ", "1", "]", "}">>,
       output |-> StructOf([k \in {<<"a", "l", "p", "h", "a">>} |->
                              ArrayOf(<<StringOf(<<"b", "e", "t", "a">>), NumberOf(10)>>)])],
      [text |-> <<"[", "1", ",", " ", "2", ",", " ", "3", "]">>,
       output |-> ArrayOf(<<NumberOf(10), NumberOf(20), NumberOf(30)>>)],
      [text |-> <<"[", "{", "\"", "a", "\"", ":", "[", "{", "\"", "b", "\"", ":",
                  "f", "a", "l", "s", "e", "}", ",", "{", "\"", "c", "\"", ":",
                  "n", "u", "l", "l", ",", "\"", "e", "\"", ":", "\"", "e", "\"",
                  ",", "\"", "h", "\"", ":", "3", ".", "1", "}", "]", "}", "]">>,
       output |-> ArrayOf(<<StructOf([k \in {<<"a">>} |-> ArrayOf(<<
                      StructOf([k2 \in {<<"b">>} |-> BoolOf(FALSE)]),
                      StructOf([k2 \in {<<"c">>, <<"e">>, <<"h">>} |->
                          IF k2 = <<"c">> THEN NilValue
                          ELSE IF k2 = <<"e">> THEN StringOf(<<"e">>)
                          ELSE NumberOf(31)])>>)])>>)] }

InitJSON ==
    /\ \/ jsonv \in JSONValues /\ jsont = None
       \/ \E tc \in TestTexts : jsonv = tc.output /\ jsont = Rendered(tc.text)
    /\ jsonr = None
    /\ nodes = <<>> /\ root = 0 /\ growth = "runtime"
    /\ stack = <<>> /\ arrays = <<>> /\ ret = None
    /\ status = "idle" /\ fault = ""
    /\ segs = <<>> /\ raised = None /\ ended = None
    /\ calls = 0 /\ hooks = 0 /\ visited = {}
    /\ first = None

NextJSON == mustJSONEncodeValue \/ FromJSON

SpecJSON == InitJSON /\ [][NextJSON]_vars

-----------------------------------------------------------------------------
(* Properties of FromValue.                                                *)

TooDeep == "fromReflectValue: value too deep"
ZeroValue == "reflect: call of reflect.Value.Type on zero Value"
StackOverflow == "stack overflow"

Done == status = "returned"
Failed == ret # None /\ ret.err # NoErr

\* The node the call that has just returned was made on, unpacked.
Unhooked(n) == n # 0 /\ nodes[n].hook = "none"
HasHook(n) == n # 0 /\ nodes[n].hook # "none"

\* The text of the access segments: .name for a field or a key, [n] for an
\* index.
RenderSeg(sg) ==
    IF sg.k = "name" THEN "." \o sg.name ELSE "[" \o ToString(sg.idx) \o "]"

RECURSIVE RenderRange(_, _, _)
RenderRange(ss, lo, hi) ==
    IF lo > hi THEN ""
    ELSE IF lo = hi THEN RenderSeg(ss[lo])
    ELSE LET mid == (lo + hi) \div 2
         IN  RenderRange(ss, lo, mid) \o RenderRange(ss, mid + 1, hi)

Render(ss) == RenderRange(ss, 1, Len(ss))

\* The elements the path slice holds for the segments ss: two for a field or
\* a key, one for an index.
Weight(ss) == Len(ss) + Cardinality({i \in DOMAIN ss : ss[i].k = "name"})

\* An absent reference: the invalid reflect.Value of a nil input, a nil
\* interface, or a nil pointer of a type without hook.
Absent(n) ==
    \/ n = 0
    \/ Interface(n) = 0
    \/ /\ nodes[Interface(n)].kind = "ptr"
       /\ nodes[Interface(n)].hook = "none"
       /\ nodes[Interface(n)].slots[1].ref = 0

\* C1: an absent reference converts to the nil Value with a nil error and
\* without fault wherever it stands: the call made on it never panics, and
\* what it returns is (nil, nil).
C1_AbsentConvertsToNil ==
    /\ status = "panic" => ~Absent(Top.node)
    /\ ret # None /\ ended # None /\ Absent(ended.from)
            => ret.val = NilValue /\ ret.err = NoErr

StatedKeyKinds == {"string", "bool"} \cup IntKinds \cup UintKinds
AcceptedKeyKinds == StatedKeyKinds \cup FloatKinds

\* A map frame past the key test of lines 182-187.
MapAccepted == Running /\ Top.pc # "enter" /\ nodes[Top.node].kind = "map"

\* The call that has just returned was made on a map without hook.
MapReturned ==
    /\ ret # None /\ ended # None /\ Unhooked(ended.node)
    /\ nodes[ended.node].kind = "map"

KeyErrorText(n, ss) ==
    "cannot convert value at " \o Render(ss) \o ": map key with "
        \o nodes[n].keyKind \o " type \"" \o nodes[n].keyType
        \o "\" cannot be stringified"

\* C2 as stated: a map is accepted only if its key kind is string, bool or
\* an integer kind, and a map of any other key kind, float included, is
\* refused.
C2_OnlyStringBoolIntegerKeys ==
    /\ MapAccepted => nodes[Top.node].keyKind \in StatedKeyKinds
    /\ MapReturned /\ nodes[ended.node].keyKind \notin StatedKeyKinds
            => ret.val = NilValue /\ ret.err # NoErr

\* C2 amended: a map is accepted if and only if its key kind is string,
\* bool, an integer kind (uintptr included) or float32/float64; a map of any
\* other key kind returns, also when it is empty, the nil Value and the
\* error `map key with <kind> type "<type-name>" cannot be stringified` at
\* the map's own path, and a map of an accepted key kind never fails on
\* account of its keys.
C2_KeyKinds ==
    /\ MapAccepted => nodes[Top.node].keyKind \in AcceptedKeyKinds
    /\ MapReturned /\ nodes[ended.node].keyKind \notin AcceptedKeyKinds
            => /\ ret.val = NilValue
               /\ ret.err # NoErr
               /\ ErrorText(arrays, ret.err) = KeyErrorText(ended.node, ended.segs)
               /\ raised.node = ended.node
    /\ MapReturned /\ nodes[ended.node].keyKind \in AcceptedKeyKinds /\ ret.err # NoErr
            => raised.node # ended.node

\* An empty map of a refused key kind, below the root, has returned its
\* error.
C2_Witness ==
    /\ MapReturned /\ ret.err # NoErr
    /\ nodes[ended.node].keyKind = "struct"
    /\ nodes[ended.node].slots = <<>>
    /\ Len(ended.segs) >= 2

\* The problem text of the failure at node n.
ProblemText(n) ==
    IF nodes[n].hook = "value_error" THEN nodes[n].hookErr
    ELSE IF nodes[n].kind = "map"
    THEN "map key with " \o nodes[n].keyKind \o " type \"" \o nodes[n].keyType
            \o "\" cannot be stringified"
    ELSE "cannot convert value of kind " \o nodes[n].kind \o " to simple value"

\* C3: whenever an error is being returned, at the failing call and at every
\* call above it up to FromValue, its text is `cannot convert value at
\* <path>: <problem>` with <path> the text of the access segments from the
\* root to the failing node, whatever backing arrays the path slices share.
C3_ErrorPath ==
    Failed => ErrorText(arrays, ret.err)
                = "cannot convert value at " \o Render(raised.segs) \o ": "
                    \o ProblemText(raised.node)

\* FromValue has failed at the second element of a slice in a slice under a
\* field or key, under the runtime's growth: four different paths were
\* appended and only two arrays allocated, the failing path written over the
\* one of its sibling.
C3_Witness ==
    /\ Done /\ Failed
    /\ growth = "runtime"
    /\ Len(raised.segs) = 3
    /\ raised.segs[3] = IndexSeg(1)
    /\ raised.segs[2].k = "index"
    /\ Len(arrays) = 2
    /\ raised.calls >= 5

\* The unpacked nodes with a hook a call has been made on.
HookedVisited == {n \in visited : nodes[n].hook # "none"}

\* C4: a value with a SimpleValue method is answered by its hook before
\* anything else is looked at.  No call gets past the type switch on such a
\* value, none panics on it (depth guard included), the hook has run once
\* for every such value a call was made on, what the call returns is the
\* hook's Value with a nil error when the hook reports none, and no member
\* underneath the value is ever visited.
C4_HookFirst ==
    /\ Running /\ Top.pc # "enter" => nodes[Top.node].hook = "none"
    /\ status = "panic" /\ Top.pc = "enter" /\ Top.node # 0 => HookOf(Top.node) = "none"
    /\ hooks = Cardinality(HookedVisited)
                - (IF Running /\ Top.pc = "enter" /\ Top.node # 0
                        /\ HookOf(Top.node) # "none" THEN 1 ELSE 0)
    /\ ret # None /\ ended # None /\ HasHook(ended.node)
            => LET h == nodes[ended.node]
               IN  IF h.hook = "value" \/ h.hookErr = ""
                   THEN ret = [val |-> h.hookVal, err |-> NoErr]
                   ELSE ret.val = NilValue /\ ret.err # NoErr
    /\ \A n \in HookedVisited :
            \A i \in DOMAIN nodes[n].slots : nodes[n].slots[i].ref \notin visited

\* A nil pointer of a type with a hook, held in an interface-typed field, has
\* returned the hook's Value and not the nil Value.
C4_Witness ==
    /\ ret # None /\ ended # None /\ HasHook(ended.node)
    /\ nodes[ended.node].kind = "ptr"
    /\ nodes[ended.node].slots[1].ref = 0
    /\ ended.from # ended.node
    /\ Len(ended.segs) = 1
    /\ ret = [val |-> StringOf("hooked"), err |-> NoErr]

NoHooks == \A n \in DOMAIN nodes : nodes[n].hook = "none"

\* C5: on an input without hooks FromValue ends with a result or with the
\* fault of the depth guard: the recursion never outgrows the stack.
C5_DepthBounded == NoHooks => fault # StackOverflow

\* A call past the depth guard of lines 154-156.
PastGuard == Running /\ Top.pc # "enter"

\* C6 as stated: the guard counts one for each field, key or index access,
\* so the fault is raised only where the path from the root has 1000
\* segments or more.
C6_CountsSegments == fault = TooDeep => Len(segs) >= MaxPathLen

\* C6 amended: the guard counts the elements of the path slice, two for
\* each struct-field or map-key access ("." and the name) and one for each
\* index access.  The slice of every call holds that many elements; the
\* fault is raised only at a value without hook whose count has reached
\* 1000, and no call whose count has reached 1000 gets past the guard or
\* returns from a value without hook.
C6_CountsElements ==
    /\ Running => Top.path.len = Weight(segs)
    /\ fault = TooDeep => Weight(segs) >= MaxPathLen /\ HookOf(Top.node) = "none"
    /\ PastGuard => Weight(segs) < MaxPathLen
    /\ ret # None /\ ended # None /\ Unhooked(ended.node)
            => Weight(ended.segs) < MaxPathLen

\* The fault is raised after 500 field or key accesses.
C6_Witness ==
    /\ status = "panic" /\ fault = TooDeep
    /\ Len(segs) = MaxPathLen \div 2
    /\ \A i \in DOMAIN segs : segs[i].k = "name"

\* C7: on an input without hooks a second FromValue ends as the first did,
\* with the same Value and the same error text.
C7_Deterministic ==
    Done /\ first # None /\ NoHooks => Outcome = first

\* The conversion of the value at node n, member by member.
RECURSIVE Converted(_)
Converted(n) ==
    IF n = 0 THEN NilValue
    ELSE LET v == nodes[n]
             exported == {i \in DOMAIN v.slots : v.slots[i].exported}
             field(nm) == CHOOSE i \in exported : v.slots[i].name = nm
             keystr(i) == keytostr(stringify(v.keyKind), v.slots[i].key)
             entry(k) == CHOOSE i \in DOMAIN v.slots : keystr(i) = k
         IN  IF v.hook # "none" THEN v.hookVal
             ELSE CASE v.kind \in {"ptr", "interface"} -> Converted(v.slots[1].ref)
                    [] v.kind = "struct" ->
                        StructOf([nm \in {v.slots[i].name : i \in exported} |->
                                    Converted(v.slots[field(nm)].ref)])
                    [] v.kind = "map" ->
                        StructOf([k \in {keystr(i) : i \in DOMAIN v.slots} |->
                                    Converted(v.slots[entry(k)].ref)])
                    [] v.kind \in {"array", "slice"} ->
                        ArrayOf([i \in DOMAIN v.slots |-> Converted(v.slots[i].ref)])
                    [] v.kind = "string" -> StringOf(v.val.s)
                    [] v.kind = "bool" -> BoolOf(v.val.b)
                    [] v.kind \in FloatKinds -> NumberOf(v.val.i)
                    [] v.kind \in IntKinds \cup UintKinds -> NumberOf(10 * v.val.i)
                    [] OTHER -> NilValue

\* The entries a struct has after the fields before its i-th.
FieldsBefore(n, i) ==
    LET done == {j \in DOMAIN nodes[n].slots : j < i /\ nodes[n].slots[j].exported}
        at(nm) == CHOOSE j \in done : nodes[n].slots[j].name = nm
    IN  StructOf([nm \in {nodes[n].slots[j].name : j \in done} |->
                    Converted(nodes[n].slots[at(nm)].ref)])

StructNodes == {n \in DOMAIN nodes : nodes[n].kind = "struct" /\ nodes[n].hook = "none"}

\* C9: while a struct is converted its Struct holds exactly one entry per
\* exported field gone through, under the field's name, with the conversion
\* of the field's value; what the struct returns when no field failed is
\* the Struct of all its exported fields, never the nil Value; and no call
\* is ever made on an unexported field.
C9_StructFields ==
    /\ PastGuard /\ Top.node \in StructNodes
            => Top.out = FieldsBefore(Top.node, Top.i)
    /\ ret # None /\ ended # None /\ ended.node \in StructNodes /\ ret.err = NoErr
            => /\ ret.val = FieldsBefore(ended.node, Len(nodes[ended.node].slots) + 1)
               /\ ret.val = Converted(ended.node)
               /\ ret.val.t = "Struct"
    /\ \A n \in StructNodes \cap visited :
            \A i \in DOMAIN nodes[n].slots :
                ~nodes[n].slots[i].exported => nodes[n].slots[i].ref \notin visited

\* FromValue has returned the Struct of a struct with two exported fields,
\* one of interface type holding a pointer to a struct whose only field is
\* unexported.
C9_Witness ==
    /\ Done /\ ret.err = NoErr
    /\ root \in StructNodes
    /\ Cardinality(DOMAIN ret.val.m) = 2
    /\ \E f \in DOMAIN ret.val.m : ret.val.m[f] = EmptyStruct
    /\ \E n \in StructNodes \cap visited :
            /\ nodes[n].slots # <<>>
            /\ \A i \in DOMAIN nodes[n].slots : ~nodes[n].slots[i].exported
    /\ \E n \in visited : nodes[n].kind = "interface"

\* C10: from the first failure on, every call returns the nil Value with the
\* error built at that failure, the very same error value; no further call
\* is made and no further hook runs; and FromValue ends returning them.
C10_AllOrNothing ==
    raised # None =>
        /\ ret # None
        /\ ret.val = NilValue
        /\ ret.err = raised.err
        /\ calls = raised.calls
        /\ hooks = raised.hooks
        /\ status # "panic"

\* FromValue has failed at a member that is not the last of its composite,
\* below the root, leaving a value with a hook unvisited.
C10_Witness ==
    /\ Done /\ raised # None
    /\ ret.val = NilValue /\ ret.err = raised.err
    /\ Len(raised.segs) >= 1
    /\ \E n \in DOMAIN nodes : n \notin visited /\ nodes[n].hook # "none"

-----------------------------------------------------------------------------
(* Properties of the JSON bridge.                                          *)

\* Structural equality of Values: the same variant at every node, the same
\* keys, the same elements in the same order; a nil and an empty Struct, or
\* Array, are the same Struct, or Array.
RECURSIVE Same(_, _)
Same(v, w) ==
    /\ v.t = w.t
    /\ CASE v.t = "Struct" ->
                /\ DOMAIN v.m = DOMAIN w.m
                /\ \A k \in DOMAIN v.m : Same(v.m[k], w.m[k])
         [] v.t = "Array" ->
                /\ Len(v.a) = Len(w.a)
                /\ \A i \in DOMAIN v.a : Same(v.a[i], w.a[i])
         [] v.t = "Number" -> ("nan" \in DOMAIN v) = ("nan" \in DOMAIN w) /\ v.f = w.f
         [] v.t = "String" -> v.s = w.s
         [] v.t = "Bool" -> v.b = w.b
         [] OTHER -> TRUE

\* C8: every Value has a JSON text, and FromJSON of that text returns no
\* error and a Value structurally equal to the one rendered.
C8_RoundTrip ==
    /\ jsont # None => jsont.ok
    /\ jsonr # None => jsonr.err = "" /\ Same(jsonr.val, jsonv)

=============================================================================
